---- MODULE Spec2Model ----
(***************************************************************************)
(* A model of the conversation session engine of cli-chat (src/chat.py):   *)
(* main's mode selection, the interactive_chat input loop, one_shot, and   *)
(* the turn executor chat_once with its streaming, per-event skip and      *)
(* streaming-to-non-streaming fallback.                                     *)
(*                                                                         *)
(* Text is a sequence of one-character strings, so that str.strip, the     *)
(* truthiness tests and "".join are computed, not assumed.  Python's None  *)
(* is the value None below, which is no text.                              *)
(*                                                                         *)
(* The transport client, the terminal and the interrupt signal are the     *)
(* environment: every outcome they can produce at a suspension point (a    *)
(* returned response, a raised Exception, a KeyboardInterrupt) is a        *)
(* separate step.                                                          *)
(***************************************************************************)
EXTENDS Integers, Sequences, FiniteSets, TLC

VARIABLES
    env,            \* os.environ after load_dotenv: the variables main reads
    mode_arg,       \* args.mode
    model,          \* main's local "model", None until resolve_model returned
    line,           \* what input() returned last, before .strip()
    requests,       \* the create(...) calls of this turn, with their arguments
    lastPath,       \* how the last turn that returned was answered
    interrupted,    \* a KeyboardInterrupt has been raised in the process
    prompt_arg,     \* args.prompt: None when --prompt is absent
    system_prompt,  \* OPENAI_SYSTEM_PROMPT: None when unset
    stream_pref,    \* main's stream = not args.no_stream
    pc,             \* position of the process
    messages,       \* the conversation history (a Python list of dicts)
    user,           \* interactive_chat's local "user" / chat_once's "prompt"
    stream,         \* chat_once's parameter "stream" (set False by the fallback)
    events,         \* the events the live stream has delivered so far
    collected,      \* chat_once's local "collected"
    completion,     \* content of the last non-streaming completion
    ret,            \* value returned by the last chat_once
    printed,        \* assistant text written to the output sink in this turn
    notice,         \* last line or label printed by the session loop itself
    streamReqs,     \* create(stream=True) calls made in this turn
    nonStreamReqs,  \* create() calls without stream made in this turn
    turnH,          \* the history as it was when the current turn began
    turns,          \* turns begun in this session
    uncaught,       \* exception that left main, if any
    exit_code       \* process exit status, -1 while running

vars == <<requests, lastPath, interrupted,
          env, mode_arg, model, line, prompt_arg, system_prompt, stream_pref, pc, messages, user, stream,
          events, collected, completion, ret, printed, notice, streamReqs,
          nonStreamReqs, turnH, turns, uncaught, exit_code>>

----------------------------------------------------------------------------
(* Bounds *)

\* Turns one session may begin.
MaxTurns == 2

\* Events one stream may deliver before it ends or fails.
MaxEvents == 2

----------------------------------------------------------------------------
(* Values *)

None == <<"None">>

\* Python truthiness of an Optional[str]: None and "" are falsy.
Truthy(x) == x /= None /\ x /= <<>>

IsSpace(c) == c \in {" ", "\t"}

RECURSIVE lstrip(_)
lstrip(s) == IF s /= <<>> /\ IsSpace(Head(s)) THEN lstrip(Tail(s)) ELSE s

RECURSIVE rstrip(_)
rstrip(s) ==
    IF s /= <<>> /\ IsSpace(s[Len(s)]) THEN rstrip(SubSeq(s, 1, Len(s) - 1)) ELSE s

\* str.strip()
strip(s) == rstrip(lstrip(s))

\* "".join(parts)
RECURSIVE join(_)
join(parts) == IF parts = <<>> THEN <<>> ELSE Head(parts) \o join(Tail(parts))

Msg(role, content) == [role |-> role, content |-> content]

CmdExit  == <<"/", "e", "x", "i", "t">>
CmdQuit  == <<"/", "q", "u", "i", "t">>
CmdClear == <<"/", "c", "l", "e", "a", "r">>

\* Lines the terminal may deliver to input().
InputLines ==
    { <<>>,
      <<" ", "\t">>,
      CmdExit,
      CmdQuit,
      CmdClear,
      <<" ">> \o CmdClear \o <<" ">>,
      <<"h", "i">> }

\* A wider choice of lines: padded text, commands in another case, padded
\* commands, and commands followed by more text.
WideLines ==
    { <<>>,
      <<" ">>,
      CmdExit,
      CmdQuit,
      CmdClear,
      <<" ">> \o CmdExit,
      CmdQuit \o <<"\t">>,
      <<" ">> \o CmdClear \o <<" ">>,
      <<"/", "E", "X", "I", "T">>,
      <<"/", "C", "l", "e", "a", "r">>,
      CmdClear \o <<" ", "x">>,
      <<" ", "h", "i", " ">> }

\* The environment variables main and its callees read.  A variable is
\* unset (os.getenv gives None), set to "", or set to a text.  The base
\* address, where set, is not an Azure one.
Env(dep, mod, url, key, am) ==
    [ OPENAI_DEPLOYMENT |-> dep, OPENAI_MODEL |-> mod, OPENAI_BASE_URL |-> url,
      OPENAI_API_KEY |-> key, AGENTS_MODEL |-> am ]

Envs ==
    { Env(dep, mod, url, key, am) :
        dep \in { None, <<>>, <<"d">> },
        mod \in { None, <<>>, <<"m">> },
        url \in { None, <<>>, <<"u">> },
        key \in { None, <<>>, <<"k">> },
        am  \in { None, <<"x">> } }

\* Values of --mode.
Modes == { "completions", "agents" }

\* The configurations a session is followed under: one that is complete, one
\* for each way main can refuse to start, and the two agents configurations.
StartupCases ==
    { << Env(<<"d">>, <<"m">>, <<"u">>, <<"k">>, None), "completions" >>,
      << Env(None, <<>>, <<"u">>, <<"k">>, None), "completions" >>,
      << Env(<<"d">>, <<"m">>, None, <<"k">>, None), "completions" >>,
      << Env(<<"d">>, <<"m">>, <<"u">>, <<>>, None), "completions" >>,
      << Env(<<"d">>, <<"m">>, <<"u">>, <<"k">>, None), "agents" >>,
      << Env(<<>>, <<"m">>, <<"u">>, None, <<"x">>), "agents" >> }

\* Values of --prompt.
PromptArgs == { None, <<>>, <<" ">>, <<"h", "i">> }

\* Values of OPENAI_SYSTEM_PROMPT.
SystemPrompts == { None, <<>>, <<"S">> }

\* message.content of a non-streaming completion.
CompletionContents == { None, <<>>, <<"a", "b">> }

\* One streaming event: well formed with a content of str or None; with an
\* empty "choices" (choices[0] raises IndexError); with a choice that has no
\* "delta" (AttributeError); or with a delta that has no "content" (getattr
\* gives None).
Event(shape, content) == [shape |-> shape, content |-> content]

StreamEvents ==
    { Event("ok", c) : c \in { <<"a">>, <<"b">>, <<>>, None } }
        \cup { Event("no_choices", None), Event("no_delta", None),
               Event("no_content", None) }

\* event.choices[0].delta raises on e
BodyRaises(e) == e.shape \in {"no_choices", "no_delta"}

WellFormed(e) == e.shape = "ok"

----------------------------------------------------------------------------
(* Pieces of the code *)

\* A seeding that records the system prompt twice.
InitialHistory_Doubled(sp) ==
    IF Truthy(sp) THEN << Msg("system", sp), Msg("system", sp) >> ELSE <<>>

\* interactive_chat / one_shot: the history at session start.
InitialHistory(sp) == IF Truthy(sp) THEN << Msg("system", sp) >> ELSE <<>>

\* A clear that forgets the system prompt.
ClearedHistory_Empty(sp) == <<>>

\* interactive_chat, "/clear".
ClearedHistory(sp) == IF Truthy(sp) THEN << Msg("system", sp) >> ELSE <<>>

\* A loop body that keeps only the latest fragment.
OnEvent_Overwrite(coll, e) ==
    IF WellFormed(e) /\ Truthy(e.content) THEN << e.content >> ELSE coll

\* chat_once, the body of the loop over the stream for one event: the new
\* value of "collected".  The inner handler swallows what the body raises.
OnEvent(coll, e) ==
    IF ~WellFormed(e) THEN coll
    ELSE IF Truthy(e.content) THEN Append(coll, e.content)
    ELSE coll

\* A loop body that prints nothing while the stream runs.
EmitEvent_Buffered(out, e) == out

\* chat_once, what the loop body prints for one event.
EmitEvent(out, e) ==
    IF WellFormed(e) /\ Truthy(e.content) THEN Append(out, e.content) ELSE out

\* The content taken as it comes, without the "or".
ContentOrEmpty_Raw(c) == c

\* chat_once: completion.choices[0].message.content or ""
ContentOrEmpty(c) == IF Truthy(c) THEN c ELSE <<>>

\* An executor that starts the history over with the user message.
AppendUser_Truncating(h, p) == << Msg("user", p) >>

\* chat_once: messages.append({"role": "user", "content": prompt})
AppendUser(h, p) == Append(h, Msg("user", p))

\* An executor that records the reply twice.
AppendAssistant_Twice(h, text) ==
    Append(Append(h, Msg("assistant", text)), Msg("assistant", text))

\* An executor that returns the text without recording it.
AppendAssistant_Dropped(h, text) == h

\* An executor that records no message for an empty reply.
AppendAssistant_SkipEmpty(h, text) ==
    IF text = <<>> THEN h ELSE Append(h, Msg("assistant", text))

\* chat_once: messages.append({"role": "assistant", "content": text})
AppendAssistant(h, text) == Append(h, Msg("assistant", text))

\* A resolution that prefers the generic identifier.
ResolveModel_ModelFirst(e) ==
    IF Truthy(e.OPENAI_MODEL) THEN e.OPENAI_MODEL ELSE e.OPENAI_DEPLOYMENT

\* resolve_model: os.getenv("OPENAI_DEPLOYMENT") or os.getenv("OPENAI_MODEL")
ResolveModel(e) ==
    IF Truthy(e.OPENAI_DEPLOYMENT) THEN e.OPENAI_DEPLOYMENT ELSE e.OPENAI_MODEL

\* A check that accepts a variable set to "".
FirstMissing_UnsetOnly(e) ==
    IF e.OPENAI_BASE_URL = None THEN "OPENAI_BASE_URL"
    ELSE IF e.OPENAI_API_KEY = None THEN "OPENAI_API_KEY"
    ELSE "none"

\* get_client: the variable on which getenv_required exits, the base address
\* being read before the credential; "none" when both are set and non-empty.
FirstMissing(e) ==
    IF ~Truthy(e.OPENAI_BASE_URL) THEN "OPENAI_BASE_URL"
    ELSE IF ~Truthy(e.OPENAI_API_KEY) THEN "OPENAI_API_KEY"
    ELSE "none"

\* main reaches one_shot / interactive_chat and get_client returns a client.
ConfigOk ==
    /\ Truthy(ResolveModel(env))
    /\ mode_arg = "completions"
    /\ FirstMissing(env) = "none"

\* A call that sends only the newest message.
Request_LastOnly(m, h, s) ==
    [ model |-> m, messages |-> << h[Len(h)] >>, stream |-> s ]

\* chat_once: client.chat.completions.create(model=model, messages=messages
\* [, stream=True]) - the arguments of one call
Request(m, h, s) == [ model |-> m, messages |-> h, stream |-> s ]

OneShot == Truthy(prompt_arg)

Executing == pc \in {"stream_create", "stream_iter", "nonstream_create", "turn_done"}

----------------------------------------------------------------------------
(* The state after main parsed its arguments and read the environment *)

\* What is true of every process at that point.
Fresh ==
    /\ requests = <<>>
    /\ lastPath = "none"
    /\ interrupted = FALSE
    /\ model = None
    /\ line = None
    /\ pc = "STARTING"
    /\ messages = <<>>
    /\ user = None
    /\ stream = stream_pref
    /\ events = <<>>
    /\ collected = <<>>
    /\ completion = None
    /\ ret = None
    /\ printed = <<>>
    /\ notice = "none"
    /\ streamReqs = 0
    /\ nonStreamReqs = 0
    /\ turnH = <<>>
    /\ turns = 0
    /\ uncaught = "none"
    /\ exit_code = -1

Init ==
    /\ \E c \in StartupCases : env = c[1] /\ mode_arg = c[2]
    /\ prompt_arg \in PromptArgs
    /\ system_prompt \in SystemPrompts
    /\ stream_pref \in BOOLEAN
    /\ Fresh

\* A session that stops streaming once a turn has fallen back.
EnterChatOnce_Sticky(h, p) ==
    /\ user' = p
    /\ turnH' = h
    /\ messages' = AppendUser(h, p)
    /\ stream' = (stream_pref /\ lastPath /= "fallback")
    /\ pc' = IF stream_pref /\ lastPath /= "fallback" THEN "stream_create" ELSE "nonstream_create"
    /\ events' = <<>>
    /\ collected' = <<>>
    /\ completion' = None
    /\ ret' = None
    /\ printed' = <<>>
    /\ streamReqs' = 0
    /\ nonStreamReqs' = 0
    /\ requests' = <<>>
    /\ turns' = turns + 1

\* chat_once is entered with history h and prompt p: the user message is
\* appended and the first transport call is about to be made.
EnterChatOnce(h, p) ==
    /\ user' = p
    /\ turnH' = h
    /\ messages' = AppendUser(h, p)
    /\ stream' = stream_pref
    /\ pc' = IF stream_pref THEN "stream_create" ELSE "nonstream_create"
    /\ events' = <<>>
    /\ collected' = <<>>
    /\ completion' = None
    /\ ret' = None
    /\ printed' = <<>>
    /\ streamReqs' = 0
    /\ nonStreamReqs' = 0
    /\ requests' = <<>>
    /\ turns' = turns + 1

\* chat_once has returned and its frame is gone: its locals, its return
\* value (which interactive_chat drops) and the record of the turn.
LeaveChatOnce ==
    /\ stream' = stream_pref
    /\ events' = <<>>
    /\ collected' = <<>>
    /\ completion' = None
    /\ ret' = None
    /\ printed' = <<>>
    /\ streamReqs' = 0
    /\ nonStreamReqs' = 0
    /\ requests' = <<>>
    /\ turnH' = <<>>

\* An exception unwinds chat_once, or the session ends after it returned:
\* the stream and the fragment list die with the frame.
Unwind ==
    /\ events' = <<>>
    /\ collected' = <<>>

\* An exception that leaves main and is reported as success.
Crash_Exit0(exc, code) ==
    /\ pc' = "TERMINATED"
    /\ uncaught' = exc
    /\ exit_code' = 0

\* The process ends with an exception leaving main.
Crash(exc, code) ==
    /\ pc' = "TERMINATED"
    /\ uncaught' = exc
    /\ exit_code' = code

\* Startup refuses to go on: msg goes to the error stream and the process
\* exits with code 2 (raise SystemExit(2), or main returns 2).
Exit2(msg) ==
    /\ pc' = "TERMINATED"
    /\ exit_code' = 2
    /\ notice' = msg
    /\ UNCHANGED uncaught

\* interactive_chat returns 0 / one_shot returns 0.
Return0 ==
    /\ pc' = "TERMINATED"
    /\ exit_code' = 0
    /\ UNCHANGED uncaught

----------------------------------------------------------------------------
(* main: the ways startup ends before a session begins *)

\* resolve_model() finds neither identifier set and non-empty
ResolveModelFails ==
    /\ pc = "STARTING"
    /\ ~Truthy(ResolveModel(env))
    /\ Exit2("Missing OPENAI_DEPLOYMENT (Azure) or OPENAI_MODEL environment variable.")
    /\ UNCHANGED <<requests, lastPath, interrupted,
                   env, mode_arg, model, line, prompt_arg, system_prompt,
                   stream_pref, messages, user, stream, events, collected, completion,
                   ret, printed, streamReqs, nonStreamReqs, turnH, turns>>

\* get_client(), first statement of one_shot and of interactive_chat:
\* getenv_required exits on the base address or on the credential
GetClientFails ==
    /\ pc = "STARTING"
    /\ Truthy(ResolveModel(env))
    /\ mode_arg = "completions"
    /\ FirstMissing(env) /= "none"
    /\ model' = ResolveModel(env)
    /\ Exit2(FirstMissing(env))
    /\ UNCHANGED <<requests, lastPath, interrupted,
                   env, mode_arg, line, prompt_arg, system_prompt,
                   stream_pref, messages, user, stream, events, collected, completion,
                   ret, printed, streamReqs, nonStreamReqs, turnH, turns>>

\* --mode agents and the backend cannot be imported (agents_mode in main, or
\* the agents SDK in run_agents_mode): 2 is returned
AgentsUnavailable ==
    /\ pc = "STARTING"
    /\ Truthy(ResolveModel(env))
    /\ mode_arg = "agents"
    /\ model' = ResolveModel(env)
    /\ Exit2("Agents mode is not available.")
    /\ UNCHANGED <<requests, lastPath, interrupted,
                   env, mode_arg, line, prompt_arg, system_prompt,
                   stream_pref, messages, user, stream, events, collected, completion,
                   ret, printed, streamReqs, nonStreamReqs, turnH, turns>>

\* --mode agents, backend imported: _build_agent finds no AGENTS_MODEL (and
\* the base address is not an Azure one) and exits
AgentsConfigExit ==
    /\ pc = "STARTING"
    /\ Truthy(ResolveModel(env))
    /\ mode_arg = "agents"
    /\ ~Truthy(env.AGENTS_MODEL)
    /\ model' = ResolveModel(env)
    /\ Exit2("AGENTS_MODEL is required unless using Azure with OPENAI_DEPLOYMENT set.")
    /\ UNCHANGED <<requests, lastPath, interrupted,
                   env, mode_arg, line, prompt_arg, system_prompt,
                   stream_pref, messages, user, stream, events, collected, completion,
                   ret, printed, streamReqs, nonStreamReqs, turnH, turns>>

\* --mode agents, backend imported and its model configured: the agent
\* runtime builds its agent and runs the session, which is not followed here
AgentsDelegated ==
    /\ pc = "STARTING"
    /\ Truthy(ResolveModel(env))
    /\ mode_arg = "agents"
    /\ Truthy(env.AGENTS_MODEL)
    /\ model' = ResolveModel(env)
    /\ pc' = "AGENTS_SESSION"
    /\ UNCHANGED <<requests, lastPath, interrupted,
                   env, mode_arg, line, prompt_arg, system_prompt,
                   stream_pref, messages, user, stream, events, collected, completion,
                   ret, printed, streamReqs, nonStreamReqs, turnH, turns, notice, uncaught,
                   exit_code>>

----------------------------------------------------------------------------
(* main -> interactive_chat: seed the history, print the banner *)

StartInteractive ==
    /\ pc = "STARTING"
    /\ ConfigOk
    /\ ~OneShot
    /\ model' = ResolveModel(env)
    /\ messages' = InitialHistory(system_prompt)
    /\ notice' = "banner"
    /\ pc' = "AWAITING_INPUT"
    /\ UNCHANGED <<requests, lastPath, interrupted,
                   env, mode_arg, line, prompt_arg, system_prompt,
                   stream_pref, user, stream, events,
                   collected, completion, ret, printed, streamReqs,
                   nonStreamReqs, turnH, turns, uncaught, exit_code>>

(* main -> one_shot: seed the history and call chat_once with args.prompt *)
StartOneShot ==
    /\ pc = "STARTING"
    /\ ConfigOk
    /\ OneShot
    /\ model' = ResolveModel(env)
    /\ EnterChatOnce(InitialHistory(system_prompt), prompt_arg)
    /\ UNCHANGED <<lastPath, interrupted,
                   env, mode_arg, line, prompt_arg, system_prompt,
                   stream_pref, notice, uncaught,
                   exit_code>>

----------------------------------------------------------------------------
(* interactive_chat: one pass of the input loop per line *)

\* A loop without the EOFError handler: end of input leaves main.
InputEOF_Uncaught ==
    /\ pc = "AWAITING_INPUT"
    /\ Crash("EOFError", 1)
    /\ UNCHANGED <<requests, lastPath, interrupted,
                   env, mode_arg, model, line, prompt_arg, system_prompt,
                   stream_pref, messages, user,
                   stream, events, collected, completion, ret, printed, notice,
                   streamReqs, nonStreamReqs, turnH, turns>>

\* input() raises EOFError
InputEOF ==
    /\ pc = "AWAITING_INPUT"
    /\ Return0
    /\ UNCHANGED <<requests, lastPath, interrupted,
                   env, mode_arg, model, line, prompt_arg, system_prompt,
                   stream_pref, messages, user,
                   stream, events, collected, completion, ret, printed, notice,
                   streamReqs, nonStreamReqs, turnH, turns>>

\* A loop that hands a blank line to chat_once.
InputBlank_Sent ==
    /\ pc = "AWAITING_INPUT"
    /\ turns < MaxTurns
    /\ \E l \in InputLines :
        /\ ~Truthy(strip(l))
        /\ line' = l
        /\ EnterChatOnce(messages, strip(l))
    /\ UNCHANGED <<lastPath, interrupted,
                   env, mode_arg, model, prompt_arg, system_prompt,
                   stream_pref, notice, uncaught,
                   exit_code>>

\* a line that strips to ""
InputBlankOf(lines) ==
    /\ pc = "AWAITING_INPUT"
    /\ \E l \in lines :
        /\ ~Truthy(strip(l))
        /\ line' = l
        /\ user' = strip(l)
    /\ UNCHANGED <<requests, lastPath, interrupted,
                   env, mode_arg, model, prompt_arg, system_prompt,
                   stream_pref, pc, messages, stream,
                   events, collected, completion, ret, printed, notice,
                   streamReqs, nonStreamReqs, turnH, turns, uncaught, exit_code>>

\* "/exit" or "/quit"
InputExitOf(lines) ==
    /\ pc = "AWAITING_INPUT"
    /\ \E l \in lines :
        /\ strip(l) \in {CmdExit, CmdQuit}
        /\ line' = l
        /\ user' = strip(l)
    /\ Return0
    /\ UNCHANGED <<requests, lastPath, interrupted,
                   env, mode_arg, model, prompt_arg, system_prompt,
                   stream_pref, messages, stream,
                   events, collected, completion, ret, printed, notice,
                   streamReqs, nonStreamReqs, turnH, turns>>

\* "/clear"
InputClearOf(lines) ==
    /\ pc = "AWAITING_INPUT"
    /\ \E l \in lines :
        /\ strip(l) = CmdClear
        /\ line' = l
        /\ user' = strip(l)
    /\ messages' = ClearedHistory(system_prompt)
    /\ notice' = "History cleared."
    /\ UNCHANGED <<requests, lastPath, interrupted,
                   env, mode_arg, model, prompt_arg, system_prompt,
                   stream_pref, pc, stream, events,
                   collected, completion, ret, printed, streamReqs,
                   nonStreamReqs, turnH, turns, uncaught, exit_code>>

\* A loop that hands the line to chat_once as it was typed.
InputTurnOf_Raw(lines) ==
    /\ pc = "AWAITING_INPUT"
    /\ turns < MaxTurns
    /\ \E l \in lines :
        /\ Truthy(strip(l))
        /\ strip(l) \notin {CmdExit, CmdQuit, CmdClear}
        /\ line' = l
        /\ EnterChatOnce(messages, l)
    /\ notice' = "Assistant:"
    /\ UNCHANGED <<lastPath, interrupted,
                   env, mode_arg, model, prompt_arg, system_prompt,
                   stream_pref, uncaught, exit_code>>

\* any other line: print the assistant's label, then
\* chat_once(client, model, messages, user, stream=stream)
InputTurnOf(lines) ==
    /\ pc = "AWAITING_INPUT"
    /\ turns < MaxTurns
    /\ \E l \in lines :
        /\ Truthy(strip(l))
        /\ strip(l) \notin {CmdExit, CmdQuit, CmdClear}
        /\ line' = l
        /\ EnterChatOnce(messages, strip(l))
    /\ notice' = "Assistant:"
    /\ UNCHANGED <<lastPath, interrupted,
                   env, mode_arg, model, prompt_arg, system_prompt,
                   stream_pref, uncaught, exit_code>>

\* The loop of a session whose terminal delivers InputLines.
InputBlank == InputBlankOf(InputLines)

InputExit == InputExitOf(InputLines)

InputClear == InputClearOf(InputLines)

InputTurn == InputTurnOf(InputLines)

\* chat_once returned to the loop, which prompts again
LoopAgain ==
    /\ pc = "turn_done"
    /\ ~OneShot
    /\ pc' = "AWAITING_INPUT"
    /\ LeaveChatOnce
    /\ UNCHANGED <<lastPath, interrupted,
                   env, mode_arg, model, line, prompt_arg, system_prompt,
                   stream_pref, messages, user,
                   notice, turns, uncaught, exit_code>>

\* chat_once returned to one_shot, which returns 0
OneShotReturn ==
    /\ pc = "turn_done"
    /\ OneShot
    /\ Return0
    /\ Unwind
    /\ UNCHANGED <<requests, lastPath, interrupted,
                   env, mode_arg, model, line, prompt_arg, system_prompt,
                   stream_pref, messages, user,
                   stream, completion, ret, printed, notice, streamReqs,
                   nonStreamReqs, turnH, turns>>

----------------------------------------------------------------------------
(* chat_once, streaming path *)

\* A handler that appends the user message again before falling back.
FallBack_Reappend ==
    /\ stream' = FALSE
    /\ events' = <<>>
    /\ messages' = Append(messages, Msg("user", user))
    /\ pc' = "nonstream_create"

\* A handler that tries the streaming request again.
FallBack_Retry ==
    /\ stream' = stream
    /\ events' = <<>>
    /\ messages' = messages
    /\ pc' = "stream_create"

\* chat_once's outer handler, "except Exception: stream = False": the stream
\* is dead, the history is left as it is, and the non-streaming path follows.
FallBack ==
    /\ stream' = FALSE
    /\ events' = <<>>
    /\ messages' = messages
    /\ pc' = "nonstream_create"

\* create(stream=True) returns the stream
StreamCreateOk ==
    /\ pc = "stream_create"
    /\ streamReqs' = streamReqs + 1
    /\ requests' = Append(requests, Request(model, messages, TRUE))
    /\ collected' = <<>>
    /\ pc' = "stream_iter"
    /\ UNCHANGED <<lastPath, interrupted,
                   env, mode_arg, model, line, prompt_arg, system_prompt,
                   stream_pref, messages, user,
                   stream, events, completion, ret, printed, notice,
                   nonStreamReqs, turnH, turns, uncaught, exit_code>>

\* create(stream=True) raises
StreamCreateRaises ==
    /\ pc = "stream_create"
    /\ streamReqs' = streamReqs + 1
    /\ requests' = Append(requests, Request(model, messages, TRUE))
    /\ FallBack
    /\ UNCHANGED <<lastPath, interrupted,
                   env, mode_arg, model, line, prompt_arg, system_prompt,
                   stream_pref, user, collected,
                   completion, ret, printed, notice, nonStreamReqs, turnH,
                   turns, uncaught, exit_code>>

\* A loop without the inner handler: what the body raises on a malformed
\* event reaches the outer handler, which falls back.
StreamEvent_NoInnerHandler(e) ==
    /\ pc = "stream_iter"
    /\ Len(events) < MaxEvents
    /\ events' = Append(events, e)
    /\ IF BodyRaises(e)
         THEN /\ stream' = FALSE
              /\ pc' = "nonstream_create"
              /\ UNCHANGED <<collected, printed>>
         ELSE /\ collected' = OnEvent(collected, e)
              /\ printed' = EmitEvent(printed, e)
              /\ UNCHANGED <<stream, pc>>
    /\ UNCHANGED <<requests, lastPath, interrupted,
                   env, mode_arg, model, line, prompt_arg, system_prompt,
                   stream_pref, messages, user,
                   completion, ret, notice, streamReqs, nonStreamReqs, turnH,
                   turns, uncaught, exit_code>>

\* the stream delivers one event and the loop body runs on it; whatever the
\* body raises on a malformed event is swallowed by "except Exception: pass"
StreamEvent(e) ==
    /\ pc = "stream_iter"
    /\ Len(events) < MaxEvents
    /\ events' = Append(events, e)
    /\ collected' = OnEvent(collected, e)
    /\ printed' = EmitEvent(printed, e)
    /\ UNCHANGED <<requests, lastPath, interrupted,
                   env, mode_arg, model, line, prompt_arg, system_prompt,
                   stream_pref, pc, messages, user,
                   stream, completion, ret, notice, streamReqs, nonStreamReqs,
                   turnH, turns, uncaught, exit_code>>

\* the stream is exhausted: join, append the assistant message, return
StreamEnd ==
    /\ pc = "stream_iter"
    /\ messages' = AppendAssistant(messages, join(collected))
    /\ ret' = join(collected)
    /\ pc' = "turn_done"
    /\ lastPath' = "streamed"
    /\ UNCHANGED <<requests, interrupted,
                   env, mode_arg, model, line, prompt_arg, system_prompt,
                   stream_pref, user, stream, events,
                   collected, completion, printed, notice, streamReqs,
                   nonStreamReqs, turnH, turns, uncaught, exit_code>>

\* An executor without the outer handler around the loop: the error leaves
\* chat_once.
StreamIterRaises_Propagates ==
    /\ pc = "stream_iter"
    /\ Crash("Exception", 1)
    /\ Unwind
    /\ UNCHANGED <<requests, lastPath, interrupted,
                   env, mode_arg, model, line, prompt_arg, system_prompt,
                   stream_pref, messages, user,
                   stream, completion, ret, printed, notice, streamReqs,
                   nonStreamReqs, turnH, turns>>

\* the iterator raises while the loop waits for the next event (connection
\* drop)
StreamIterRaises ==
    /\ pc = "stream_iter"
    /\ FallBack
    /\ UNCHANGED <<requests, lastPath, interrupted,
                   env, mode_arg, model, line, prompt_arg, system_prompt,
                   stream_pref, user, collected,
                   completion, ret, printed, notice, streamReqs, nonStreamReqs,
                   turnH, turns, uncaught, exit_code>>

----------------------------------------------------------------------------
(* chat_once, non-streaming path (direct, or the fallback) *)

\* An executor that records the streamed fragments in front of the reply.
NonStreamOk_JoinsPartial(c) ==
    /\ pc = "nonstream_create"
    /\ nonStreamReqs' = nonStreamReqs + 1
    /\ requests' = Append(requests, Request(model, messages, FALSE))
    /\ completion' = c
    /\ printed' = Append(printed, ContentOrEmpty(c))
    /\ messages' = AppendAssistant(messages, join(collected) \o ContentOrEmpty(c))
    /\ ret' = ContentOrEmpty(c)
    /\ pc' = "turn_done"
    /\ lastPath' = IF streamReqs = 0 THEN "direct" ELSE "fallback"
    /\ UNCHANGED <<interrupted,
                   env, mode_arg, model, line, prompt_arg, system_prompt,
                   stream_pref, user, stream, events,
                   collected, notice, streamReqs, turnH, turns, uncaught,
                   exit_code>>

\* create() returns a completion: print, append the assistant message, return
NonStreamOk(c) ==
    /\ pc = "nonstream_create"
    /\ nonStreamReqs' = nonStreamReqs + 1
    /\ requests' = Append(requests, Request(model, messages, FALSE))
    /\ completion' = c
    /\ printed' = Append(printed, ContentOrEmpty(c))
    /\ messages' = AppendAssistant(messages, ContentOrEmpty(c))
    /\ ret' = ContentOrEmpty(c)
    /\ pc' = "turn_done"
    /\ lastPath' = IF streamReqs = 0 THEN "direct" ELSE "fallback"
    /\ UNCHANGED <<interrupted,
                   env, mode_arg, model, line, prompt_arg, system_prompt,
                   stream_pref, user, stream, events,
                   collected, notice, streamReqs, turnH, turns, uncaught,
                   exit_code>>

\* An executor that takes the user message back when the call fails.
NonStreamRaises_Rollback ==
    /\ pc = "nonstream_create"
    /\ nonStreamReqs' = nonStreamReqs + 1
    /\ requests' = Append(requests, Request(model, messages, FALSE))
    /\ Crash("Exception", 1)
    /\ Unwind
    /\ messages' = turnH
    /\ UNCHANGED <<lastPath, interrupted,
                   env, mode_arg, model, line, prompt_arg, system_prompt,
                   stream_pref, user,
                   stream, completion, ret, printed, notice, streamReqs, turnH,
                   turns>>

\* create() raises: no handler in chat_once, interactive_chat, one_shot or main
NonStreamRaises ==
    /\ pc = "nonstream_create"
    /\ nonStreamReqs' = nonStreamReqs + 1
    /\ requests' = Append(requests, Request(model, messages, FALSE))
    /\ Crash("Exception", 1)
    /\ Unwind
    /\ UNCHANGED <<lastPath, interrupted,
                   env, mode_arg, model, line, prompt_arg, system_prompt,
                   stream_pref, messages, user,
                   stream, completion, ret, printed, notice, streamReqs, turnH,
                   turns>>

----------------------------------------------------------------------------
(* KeyboardInterrupt: not an Exception, so neither handler of chat_once    *)
(* catches it                                                              *)

\* A loop that prompts again after an interrupt.
InterruptInteractive_Continue ==
    /\ ~OneShot
    /\ pc = "AWAITING_INPUT" \/ Executing
    /\ notice' = "Interrupted."
    /\ interrupted' = TRUE
    /\ pc' = "AWAITING_INPUT"
    /\ UNCHANGED <<uncaught, exit_code>>
    /\ Unwind
    /\ UNCHANGED <<requests, lastPath,
                   env, mode_arg, model, line, prompt_arg, system_prompt,
                   stream_pref, messages, user,
                   stream, completion, ret, printed, streamReqs, nonStreamReqs,
                   turnH, turns>>

\* An executor whose handlers catch the interrupt raised while the stream is
\* iterated, and fall back.
InterruptInteractive_Swallowed ==
    /\ ~OneShot
    /\ pc = "AWAITING_INPUT" \/ Executing
    /\ IF pc = "stream_iter"
         THEN /\ stream' = FALSE
              /\ pc' = "nonstream_create"
              /\ UNCHANGED <<notice, uncaught, exit_code>>
         ELSE /\ notice' = "Interrupted."
              /\ Return0
              /\ UNCHANGED stream
    /\ interrupted' = TRUE
    /\ Unwind
    /\ UNCHANGED <<requests, lastPath,
                   env, mode_arg, model, line, prompt_arg, system_prompt,
                   stream_pref, messages, user,
                   completion, ret, printed, streamReqs, nonStreamReqs,
                   turnH, turns>>

\* in interactive_chat: except KeyboardInterrupt -> "Interrupted.", return 0
InterruptInteractive ==
    /\ ~OneShot
    /\ pc = "AWAITING_INPUT" \/ Executing
    /\ notice' = "Interrupted."
    /\ interrupted' = TRUE
    /\ Return0
    /\ Unwind
    /\ UNCHANGED <<requests, lastPath,
                   env, mode_arg, model, line, prompt_arg, system_prompt,
                   stream_pref, messages, user,
                   stream, completion, ret, printed, streamReqs, nonStreamReqs,
                   turnH, turns>>

\* in one_shot: no handler, the interrupt leaves main
InterruptOneShot ==
    /\ OneShot
    /\ Executing
    /\ Crash("KeyboardInterrupt", 130)
    /\ interrupted' = TRUE
    /\ Unwind
    /\ UNCHANGED <<requests, lastPath,
                   env, mode_arg, model, line, prompt_arg, system_prompt,
                   stream_pref, messages, user,
                   stream, completion, ret, printed, notice, streamReqs,
                   nonStreamReqs, turnH, turns>>

----------------------------------------------------------------------------

Next ==
    \/ ResolveModelFails
    \/ GetClientFails
    \/ AgentsUnavailable
    \/ AgentsConfigExit
    \/ AgentsDelegated
    \/ StartInteractive
    \/ StartOneShot
    \/ InputEOF
    \/ InputBlank
    \/ InputExit
    \/ InputClear
    \/ InputTurn
    \/ LoopAgain
    \/ OneShotReturn
    \/ StreamCreateOk
    \/ StreamCreateRaises
    \/ \E e \in StreamEvents : StreamEvent(e)
    \/ StreamEnd
    \/ StreamIterRaises
    \/ \E c \in CompletionContents : NonStreamOk(c)
    \/ NonStreamRaises
    \/ InterruptInteractive
    \/ InterruptOneShot

Spec == Init /\ [][Next]_vars

----------------------------------------------------------------------------
(* Startup alone, under every combination of the environment variables *)

InitStartup ==
    /\ env \in Envs
    /\ mode_arg \in Modes
    /\ prompt_arg \in PromptArgs
    /\ system_prompt \in SystemPrompts
    /\ stream_pref \in BOOLEAN
    /\ Fresh

NextStartup ==
    \/ ResolveModelFails
    \/ GetClientFails
    \/ AgentsUnavailable
    \/ AgentsConfigExit
    \/ AgentsDelegated
    \/ StartInteractive
    \/ StartOneShot

SpecStartup == InitStartup /\ [][NextStartup]_vars

----------------------------------------------------------------------------
(* An interactive session without streaming whose terminal delivers        *)
(* WideLines                                                               *)

InitLines ==
    /\ env = Env(<<"d">>, <<"m">>, <<"u">>, <<"k">>, None)
    /\ mode_arg = "completions"
    /\ prompt_arg = None
    /\ system_prompt \in SystemPrompts
    /\ stream_pref = FALSE
    /\ Fresh

NextLines ==
    \/ StartInteractive
    \/ InputEOF
    \/ InputBlankOf(WideLines)
    \/ InputExitOf(WideLines)
    \/ InputClearOf(WideLines)
    \/ InputTurnOf(WideLines)
    \/ LoopAgain
    \/ \E c \in CompletionContents : NonStreamOk(c)
    \/ NonStreamRaises
    \/ InterruptInteractive

SpecLines == InitLines /\ [][NextLines]_vars

----------------------------------------------------------------------------
(* Vocabulary of the properties *)

Last(h) == h[Len(h)]

EndsWithUser(h) == h /= <<>> /\ Last(h).role = "user"

\* Number of leading system messages that the pattern [system]? allows.
Lead(h) == IF h /= <<>> /\ h[1].role = "system" THEN 1 ELSE 0

\* h has the form [system]? (user assistant)*
Paired(h) ==
    /\ (Len(h) - Lead(h)) % 2 = 0
    /\ \A i \in (Lead(h) + 1)..Len(h) :
          h[i].role = IF (i - Lead(h)) % 2 = 1 THEN "user" ELSE "assistant"

\* no two neighbours of h have the same role, unless it is "system"
NoRepeatedRole(h) ==
    \A i \in 1..(Len(h) - 1) : h[i].role = h[i + 1].role => h[i].role = "system"

\* The text of a completion: its content, "" when it has none.
ResponseText(c) == IF c = None THEN <<>> ELSE c

\* The text one streaming event carries: "" for None, "" and malformed events.
FragmentText(e) ==
    IF e.shape = "ok" /\ e.content /= None THEN e.content ELSE <<>>

\* The fragments of evs, concatenated in arrival order.
RECURSIVE Concat(_)
Concat(evs) ==
    IF evs = <<>> THEN <<>> ELSE FragmentText(Head(evs)) \o Concat(Tail(evs))

\* The history a successful turn with reply t leaves behind.
TurnHistory(t) == turnH \o << Msg("user", user), Msg("assistant", t) >>

Interactive == ~OneShot

\* chat_once has returned ...
ReturnedStreamed == pc = "turn_done" /\ streamReqs = 1 /\ nonStreamReqs = 0
ReturnedDirect   == pc = "turn_done" /\ streamReqs = 0 /\ nonStreamReqs = 1
ReturnedFallback == pc = "turn_done" /\ streamReqs = 1 /\ nonStreamReqs = 1

----------------------------------------------------------------------------
(* C1: History alternation.  In an interactive session, whenever the loop  *)
(* awaits input or a turn has just returned - after any successful turns,  *)
(* blank lines and /clear commands - the history is [system]? (user        *)
(* assistant)*, and in every state no two neighbouring messages have the   *)
(* same non-system role.                                                   *)
C1_HistoryAlternation ==
    Interactive =>
        /\ pc \in {"AWAITING_INPUT", "turn_done"} => Paired(messages)
        /\ NoRepeatedRole(messages)

\* Two successful turns behind a system message, the loop prompting again.
C1_Witness ==
    /\ Interactive
    /\ pc = "AWAITING_INPUT"
    /\ turns = 2
    /\ Len(messages) = 5
    /\ messages[1].role = "system"

----------------------------------------------------------------------------
(* C2: Streaming-to-non-streaming fallback.  When the streaming call       *)
(* raised, at setup or after fragments were consumed, the history holds    *)
(* the turn's user message once and no assistant message while the         *)
(* non-streaming call is awaited; when that call returns, the history is   *)
(* the old one plus the user message plus one assistant message whose      *)
(* content is the non-streaming text, which is also returned; and an       *)
(* Exception leaves the executor only from a failed non-streaming call.    *)
C2_Fallback ==
    /\ (pc = "nonstream_create" /\ streamReqs = 1) =>
          /\ messages = Append(turnH, Msg("user", user))
          /\ ~stream
          /\ uncaught = "none"
    /\ ReturnedFallback =>
          /\ messages = TurnHistory(ResponseText(completion))
          /\ ret = ResponseText(completion)
    /\ uncaught = "Exception" => nonStreamReqs = 1

\* A fallback after a fragment had been streamed, answered with "ab".
C2_Witness ==
    /\ ReturnedFallback
    /\ stream_pref
    /\ collected /= <<>>
    /\ completion = <<"a", "b">>
    /\ ret = <<"a", "b">>

----------------------------------------------------------------------------
(* C3: Streaming concatenation equivalence.  When a stream is exhausted    *)
(* without error, the returned text is the concatenation, in arrival       *)
(* order, of the text of its fragments, and the history is the old one     *)
(* plus the user message plus one assistant message with that text.  The   *)
(* result depends on the stream through that concatenation only, so two    *)
(* streams that concatenate to the same string give the same result.       *)
C3_StreamConcat ==
    ReturnedStreamed =>
        /\ ret = Concat(events)
        /\ messages = TurnHistory(Concat(events))

\* The stream "a", "b" returned "ab".
C3_Witness ==
    /\ ReturnedStreamed
    /\ events = << Event("ok", <<"a">>), Event("ok", <<"b">>) >>
    /\ ret = <<"a", "b">>
    /\ Last(messages) = Msg("assistant", <<"a", "b">>)

----------------------------------------------------------------------------
(* C4: Non-streaming turn.  With stream preference false, a turn whose     *)
(* request returns text t has made exactly one non-streaming request and   *)
(* no streaming request, leaves the history H, {user, p}, {assistant, t},  *)
(* and returns t; no streaming request is ever made in such a session.     *)
C4_NonStreaming ==
    ~stream_pref =>
        /\ streamReqs = 0
        /\ pc = "turn_done" =>
              /\ nonStreamReqs = 1
              /\ messages = TurnHistory(ResponseText(completion))
              /\ ret = ResponseText(completion)

\* A second direct turn returned "ab" on a history that held a first turn.
C4_Witness ==
    /\ ~stream_pref
    /\ ReturnedDirect
    /\ Len(turnH) >= 2
    /\ ret = <<"a", "b">>
    /\ messages = TurnHistory(<<"a", "b">>)

----------------------------------------------------------------------------
(* C5: In interactive mode a transport error raised by the non-streaming   *)
(* path does not crash the process: no Exception leaves the session, which *)
(* ends only with exit status 0.                                           *)
C5_InteractiveSurvivesError ==
    Interactive =>
        /\ uncaught /= "Exception"
        /\ pc = "TERMINATED" => exit_code = 0

----------------------------------------------------------------------------
(* C6: A user interrupt is always recovered gracefully: in interactive and *)
(* in one-shot mode alike it never leaves the session as an uncaught       *)
(* KeyboardInterrupt, and it ends the session with the interruption notice *)
(* and exit code 0.                                                        *)
C6_InterruptGraceful ==
    /\ uncaught /= "KeyboardInterrupt"
    /\ notice = "Interrupted." => (pc = "TERMINATED" /\ exit_code = 0)

----------------------------------------------------------------------------
(* C7, as stated: once a user message has been appended, an assistant      *)
(* message follows it before the session awaits input again or terminates, *)
(* so the history never ends in a user message in those states.            *)
C7_Original ==
    pc \in {"AWAITING_INPUT", "TERMINATED"} => ~EndsWithUser(messages)

(* C7, amended: while a turn executes, the history is the old one plus the *)
(* turn's user message plus at most one message, which is an assistant     *)
(* message; it holds exactly that one assistant message when chat_once has *)
(* returned; and the history does not end in a user message when the loop  *)
(* awaits input or the session has returned without an interrupt.  Only a  *)
(* turn ended by a failed non-streaming call or by an interrupt leaves the *)
(* user message unanswered.                                                *)
C7_Amended ==
    /\ Executing =>
          /\ Len(messages) \in {Len(turnH) + 1, Len(turnH) + 2}
          /\ SubSeq(messages, 1, Len(turnH) + 1) = Append(turnH, Msg("user", user))
          /\ Len(messages) = Len(turnH) + 2 => Last(messages).role = "assistant"
          /\ pc = "turn_done" <=> Len(messages) = Len(turnH) + 2
    /\ (\/ pc = "AWAITING_INPUT"
        \/ pc = "TERMINATED" /\ uncaught = "none" /\ notice /= "Interrupted.")
          => ~EndsWithUser(messages)

\* One turn was answered and the loop prompts again.
C7_Witness ==
    /\ pc = "AWAITING_INPUT"
    /\ turns = 1
    /\ Len(messages) = 2
    /\ messages[1].role = "user"
    /\ messages[2].role = "assistant"

----------------------------------------------------------------------------
\* The fragments of evs that carry text, in arrival order.
RECURSIVE Fragments(_)
Fragments(evs) ==
    IF evs = <<>> THEN <<>>
    ELSE (IF FragmentText(Head(evs)) = <<>> THEN <<>> ELSE << FragmentText(Head(evs)) >>)
             \o Fragments(Tail(evs))

Delivered == pc = "stream_iter" /\ Len(events') = Len(events) + 1

\* The step that delivers an event keeps the executor on the stream.
DeliveryKeepsStreaming ==
    Delivered =>
        /\ pc' = "stream_iter"
        /\ stream'
        /\ nonStreamReqs' = 0
        /\ messages' = messages
        /\ uncaught' = "none"

(* C8: Malformed streaming events are skipped per fragment.  Every event   *)
(* the stream delivers, malformed or not, leaves the executor iterating    *)
(* the same stream, with no fallback and no non-streaming request, and the *)
(* history untouched; and while streaming and when the streamed turn has   *)
(* returned, the accumulated fragments are exactly the non-empty texts of  *)
(* the well-formed events, in order.                                       *)
C8_MalformedSkipped ==
    /\ [][DeliveryKeepsStreaming]_vars
    /\ []((pc = "stream_iter" \/ ReturnedStreamed) => collected = Fragments(events))

\* A stream of a malformed event and then "a" returned "a" on the streaming path.
C8_Witness ==
    /\ ReturnedStreamed
    /\ events = << Event("no_choices", None), Event("ok", <<"a">>) >>
    /\ ret = <<"a">>
    /\ Last(messages) = Msg("assistant", <<"a">>)

----------------------------------------------------------------------------
(* C9, as stated: a malformed event shape met during consumption triggers  *)
(* the fallback like any other streaming error, so a turn that returned on *)
(* the streaming path, without a non-streaming request, consumed           *)
(* well-formed events only.                                                *)
C9_Original ==
    ReturnedStreamed => \A i \in 1..Len(events) : events[i].shape = "ok"

\* What a step from a streaming position may do.
StreamingStep ==
    pc \in {"stream_create", "stream_iter"} =>
        /\ uncaught' /= "Exception"
        /\ pc' \in {"stream_iter", "turn_done", "nonstream_create", "TERMINATED"}
        /\ pc' = "nonstream_create" =>
              /\ ~Delivered
              /\ ~stream'
              /\ messages' = messages
              /\ nonStreamReqs' = 0
        /\ Delivered => pc' = "stream_iter"

(* C9, amended: an error raised by the streaming request at setup or by    *)
(* the stream while iterating triggers the fallback - no Exception leaves  *)
(* the executor from a streaming position, and the step to the             *)
(* non-streaming path is not the delivery of an event, clears the stream   *)
(* flag and leaves the history as it was - so that the assistant message   *)
(* appended is the non-streaming response.  A malformed event shape does   *)
(* not trigger the fallback: the event is skipped and streaming goes on.   *)
C9_Amended ==
    /\ [][StreamingStep]_vars
    /\ [](ReturnedFallback =>
            Last(messages) = Msg("assistant", ResponseText(completion)))

\* The stream failed after a fragment was consumed; the non-streaming call is next.
C9_Witness ==
    /\ pc = "nonstream_create"
    /\ streamReqs = 1
    /\ ~stream
    /\ collected = << <<"a">> >>
    /\ ~EndsWithUser(turnH)
    /\ Last(messages).role = "user"

----------------------------------------------------------------------------
\* The single system message of a session configured with a system prompt.
ConfiguredSeed ==
    IF system_prompt = None \/ system_prompt = <<>>
    THEN <<>>
    ELSE << [role |-> "system", content |-> system_prompt] >>

(* C10: Clear resets but preserves the system seed.  As long as /clear is  *)
(* the last line read, the history is exactly [{system, S}] when a         *)
(* (non-empty) system prompt S was configured and empty otherwise, no      *)
(* transport request has been made, and the session awaits input (or has   *)
(* since ended normally, by end of input or an interrupt).                 *)
C10_ClearKeepsSeed ==
    user = CmdClear =>
        /\ messages = ConfiguredSeed
        /\ streamReqs = 0
        /\ nonStreamReqs = 0
        /\ pc \in {"AWAITING_INPUT", "TERMINATED"}
        /\ pc = "TERMINATED" => exit_code = 0

\* After a turn, /clear left the system message alone.
C10_Witness ==
    /\ pc = "AWAITING_INPUT"
    /\ user = CmdClear
    /\ turns >= 1
    /\ notice = "History cleared."
    /\ messages = << Msg("system", <<"S">>) >>

----------------------------------------------------------------------------
\* Positions of the system messages of h.
SystemAt(h) == { i \in 1..Len(h) : h[i].role = "system" }

(* C11: System message invariant.  In every state of a one-shot or an      *)
(* interactive session - after startup, during and after every turn        *)
(* whatever its outcome, after every /clear - the history holds at most    *)
(* one system message, and the one it holds is its first element.          *)
C11_SystemMessage ==
    /\ Cardinality(SystemAt(messages)) <= 1
    /\ SystemAt(messages) \subseteq {1}
    /\ Cardinality(SystemAt(turnH)) <= 1
    /\ SystemAt(turnH) \subseteq {1}

\* A seeded session, cleared once, in its second answered turn.
C11_Witness ==
    /\ pc = "turn_done"
    /\ turns = 2
    /\ SystemAt(messages) = {1}
    /\ Len(messages) = 3
    /\ messages[1] = Msg("system", system_prompt)

----------------------------------------------------------------------------
\* The loop read a line that strips to "" (and the line before it did not).
BlankRead == pc = "AWAITING_INPUT" /\ user /= <<>> /\ user' = <<>>

\* A blank line changes nothing but the loop's local "user".
BlankStep ==
    BlankRead =>
        /\ pc' = "AWAITING_INPUT"
        /\ messages' = messages
        /\ turns' = turns
        /\ streamReqs' = streamReqs
        /\ nonStreamReqs' = nonStreamReqs
        /\ notice' = notice
        /\ exit_code' = exit_code
        /\ uncaught' = uncaught

(* C12: Blank-input idempotence.  In interactive mode an empty or          *)
(* whitespace-only line leaves the history unchanged, begins no turn,      *)
(* makes no transport request and leaves the session awaiting input; the   *)
(* state after it differs from the state before it in nothing but the      *)
(* line just read, so any number of consecutive blank lines has the effect *)
(* of none; and while a blank line is the last one read no turn executes.  *)
C12_BlankInput ==
    /\ [][BlankStep]_vars
    /\ [](user = <<>> => (Interactive /\ ~Executing))

\* A blank line was read after an answered turn.
C12_Witness ==
    /\ pc = "AWAITING_INPUT"
    /\ user = <<>>
    /\ turns = 1
    /\ Len(messages) >= 2
    /\ Last(messages).role = "assistant"

----------------------------------------------------------------------------
\* Empty or made of whitespace only.
IsBlank(t) == strip(t) = <<>>

(* C13: An empty or whitespace-only user text is never passed to the turn  *)
(* executor, in any mode: whenever chat_once executes, its prompt - an     *)
(* interactive line or the text given with --prompt - is not blank.        *)
C13_NoBlankPrompt ==
    Executing => ~IsBlank(user)

----------------------------------------------------------------------------
(* C14: In single-shot mode a transport error raised by the non-streaming  *)
(* path, direct or fallback, ends the process with a non-zero exit status: *)
(* the error leaves main after exactly one non-streaming request, with no  *)
(* reply returned or recorded, and exit status 0 is reported only for a    *)
(* turn that returned its reply.                                           *)
C14_OneShotErrorExit ==
    OneShot =>
        /\ uncaught = "Exception" =>
              /\ pc = "TERMINATED"
              /\ exit_code \notin {0, -1}
              /\ nonStreamReqs = 1
              /\ ret = None
              /\ EndsWithUser(messages)
        /\ exit_code = 0 =>
              /\ uncaught = "none"
              /\ ret /= None
              /\ Last(messages) = Msg("assistant", ret)

\* The streaming request of a one-shot run failed and so did the fallback.
C14_Witness ==
    /\ OneShot
    /\ pc = "TERMINATED"
    /\ uncaught = "Exception"
    /\ streamReqs = 1
    /\ nonStreamReqs = 1
    /\ exit_code = 1

----------------------------------------------------------------------------
(* C15: Mode selection by --prompt.  Whenever --prompt is present the      *)
(* program runs single-shot mode - it never shows the banner or awaits an  *)
(* input line, and it begins at most one turn, whose user text is the      *)
(* text supplied; only when --prompt is absent does it run the interactive *)
(* input loop.                                                             *)
C15_PromptSelectsOneShot ==
    /\ prompt_arg /= None =>
          /\ pc /= "AWAITING_INPUT"
          /\ notice /= "banner"
          /\ turns <= 1
          /\ Executing => user = prompt_arg
    /\ pc = "AWAITING_INPUT" => prompt_arg = None

----------------------------------------------------------------------------
\* The loop ends from the prompt.
EndsFromPrompt == pc = "AWAITING_INPUT" /\ pc' = "TERMINATED"

\* Ending from the prompt is a normal exit that touches nothing else.
NormalExitStep ==
    EndsFromPrompt =>
        /\ exit_code' = 0
        /\ uncaught' = "none"
        /\ messages' = messages
        /\ streamReqs' = streamReqs
        /\ nonStreamReqs' = nonStreamReqs
        /\ turns' = turns

\* Nothing happens after termination.
TerminalStep == pc = "TERMINATED" => UNCHANGED vars

(* C17: Normal termination paths.  From AWAITING_INPUT, end of input,      *)
(* /exit and /quit each end the session with exit status 0, with no        *)
(* transport request and the history unchanged; once /exit or /quit is the *)
(* line read the session is terminated with status 0; and TERMINATED is    *)
(* terminal: no input is read and no turn is executed after it.            *)
C17_NormalTermination ==
    /\ [][NormalExitStep]_vars
    /\ [][TerminalStep]_vars
    /\ [](user \in {CmdExit, CmdQuit} =>
            (pc = "TERMINATED" /\ exit_code = 0 /\ uncaught = "none"))

\* /quit ended a session that had answered a turn.
C17_Witness ==
    /\ pc = "TERMINATED"
    /\ user = CmdQuit
    /\ exit_code = 0
    /\ turns = 1
    /\ Len(messages) >= 2
    /\ ~EndsWithUser(messages)

----------------------------------------------------------------------------
(* C20: No automatic retries.  Within one turn the executor issues at most *)
(* one streaming and at most one non-streaming request; a non-streaming    *)
(* request follows a streaming one only when the streaming attempt failed  *)
(* (the handler has cleared the stream flag), never after a stream that    *)
(* was consumed to its end; and a failed non-streaming request ends the    *)
(* process, so neither the executor nor the loop issues it again.          *)
C20_NoRetry ==
    /\ streamReqs <= 1
    /\ nonStreamReqs <= 1
    /\ (pc = "nonstream_create" /\ streamReqs = 1) => (stream_pref /\ ~stream)
    /\ (nonStreamReqs = 1 /\ streamReqs = 1) => (stream_pref /\ ~stream)
    /\ (pc = "turn_done" /\ stream) => nonStreamReqs = 0
    /\ pc = "nonstream_create" => nonStreamReqs = 0
    /\ pc = "stream_create" => (streamReqs = 0 /\ nonStreamReqs = 0)
    /\ uncaught = "Exception" => (pc = "TERMINATED" /\ nonStreamReqs = 1)

\* Second turn of a session: the stream failed and the fallback answered.
C20_Witness ==
    /\ pc = "turn_done"
    /\ turns = 2
    /\ streamReqs = 1
    /\ nonStreamReqs = 1
    /\ ~stream
    /\ ret = <<"a", "b">>

----------------------------------------------------------------------------
\* The three command tokens.
Cmds == { CmdExit, CmdQuit, CmdClear }

(* C16, as stated: an input line is handled as a control command if and    *)
(* only if it is exactly /exit, /quit or /clear, and every other non-blank *)
(* line causes one executor invocation with that text: the loop acts on a  *)
(* command only when the line read is the token itself, and the executor's *)
(* prompt is the line as read.                                             *)
C16_Original ==
    line /= None =>
        /\ user \in Cmds <=> line \in Cmds
        /\ Executing => user = line

\* The loop took a line from the terminal (not end of input, not an interrupt).
ReadStep == pc = "AWAITING_INPUT" /\ ~(pc' = "TERMINATED" /\ user' = user)

\* What the loop does with the line it read.
LineHandled ==
    ReadStep =>
        /\ line' \in WideLines
        /\ user' = strip(line')
        /\ turns' \in {turns, turns + 1}
        /\ (turns' = turns + 1) <=> (~IsBlank(line') /\ strip(line') \notin Cmds)
        /\ (turns' = turns + 1) =>
              /\ pc' = "nonstream_create"
              /\ messages' = Append(messages, Msg("user", strip(line')))
        /\ strip(line') = CmdClear =>
              (pc' = "AWAITING_INPUT" /\ messages' = ConfiguredSeed)
        /\ strip(line') \in {CmdExit, CmdQuit} =>
              (pc' = "TERMINATED" /\ exit_code' = 0 /\ messages' = messages)
        /\ IsBlank(line') => (pc' = "AWAITING_INPUT" /\ messages' = messages)

(* C16, amended: control commands are exact, case-sensitive tokens of the  *)
(* line stripped of its leading and trailing whitespace.  A line is        *)
(* handled as a control command if and only if its stripped text is        *)
(* exactly /exit, /quit or /clear; every other non-blank line (/EXIT,      *)
(* /Clear, a token followed by more text) begins exactly one turn, whose   *)
(* user text is the stripped line.                                         *)
C16_Amended ==
    /\ [][LineHandled]_vars
    /\ [](line /= None => user = strip(line))
    /\ [](Executing =>
            /\ ~IsBlank(line)
            /\ strip(line) \notin Cmds
            /\ messages[Len(turnH) + 1] = Msg("user", strip(line)))

\* The line "/clear x" was answered as conversation text, after a padded
\* "/clear" had cleared the history of the first turn.
C16_Witness ==
    /\ pc = "turn_done"
    /\ turns = 2
    /\ line = CmdClear \o <<" ", "x">>
    /\ user = line
    /\ turnH = ConfiguredSeed
    /\ Len(messages) = Len(turnH) + 2

----------------------------------------------------------------------------
\* Set and not empty.
NonEmpty(x) == x /= None /\ Len(x) > 0

\* Nothing of a session has happened.
NoSession ==
    /\ pc \in {"STARTING", "TERMINATED"}
    /\ pc = "TERMINATED" => exit_code = 2
    /\ messages = <<>>
    /\ notice \notin {"banner", "Assistant:", "History cleared.", "Interrupted."}
    /\ line = None
    /\ user = None
    /\ turns = 0
    /\ streamReqs = 0
    /\ nonStreamReqs = 0

ModelMissing == ~NonEmpty(env.OPENAI_DEPLOYMENT) /\ ~NonEmpty(env.OPENAI_MODEL)

EndpointMissing == ~NonEmpty(env.OPENAI_API_KEY) \/ ~NonEmpty(env.OPENAI_BASE_URL)

----------------------------------------------------------------------------
\* resolve_model refused.
ResolutionFailed ==
    /\ pc = "TERMINATED"
    /\ exit_code = 2
    /\ model = None
    /\ notice = "Missing OPENAI_DEPLOYMENT (Azure) or OPENAI_MODEL environment variable."

(* C19: Model resolution precedence.  For every combination of the         *)
(* deployment identifier and the generic model identifier each being set   *)
(* non-empty, set empty or unset, once main has resolved the model it is   *)
(* the deployment identifier when that is non-empty, otherwise the generic *)
(* identifier when that is non-empty, and otherwise resolution fails with  *)
(* exit code 2 - and it fails in no other case.                            *)
C19_ModelPrecedence ==
    pc /= "STARTING" =>
        IF NonEmpty(env.OPENAI_DEPLOYMENT)
        THEN model = env.OPENAI_DEPLOYMENT /\ ~ResolutionFailed
        ELSE IF NonEmpty(env.OPENAI_MODEL)
        THEN model = env.OPENAI_MODEL /\ ~ResolutionFailed
        ELSE ResolutionFailed

\* Both identifiers are set: the session runs with the deployment.
C19_Witness ==
    /\ pc = "AWAITING_INPUT"
    /\ env.OPENAI_DEPLOYMENT = <<"d">>
    /\ env.OPENAI_MODEL = <<"m">>
    /\ model = <<"d">>

----------------------------------------------------------------------------
\* The history a turn works on: the old one plus the turn's user message.
TurnContext == Append(turnH, Msg("user", user))

\* The messages of h behind the first n that have the given role.
NewWithRole(h, n, role) == { j \in (n + 1)..Len(h) : h[j].role = role }

(* C21: Transport context.  Every transport request of a turn - the        *)
(* streaming request, the direct non-streaming request, the fallback       *)
(* request - is given the session's model and the full current history:    *)
(* the history before the turn followed by the turn's user message, once,  *)
(* as its last element, and no assistant message of this turn.  A fallback *)
(* request follows a streaming request and carries the same history.       *)
C21_TransportContext ==
    /\ Len(requests) = streamReqs + nonStreamReqs
    /\ \A i \in 1..Len(requests) :
          /\ requests[i].model = model
          /\ requests[i].messages = TurnContext
          /\ Last(requests[i].messages) = Msg("user", user)
          /\ Cardinality(NewWithRole(requests[i].messages, Len(turnH), "user")) = 1
          /\ NewWithRole(requests[i].messages, Len(turnH), "assistant") = {}
    /\ Len(requests) = 2 =>
          /\ requests[1].stream
          /\ ~requests[2].stream
          /\ requests[2].messages = requests[1].messages
    /\ (Len(requests) >= 1 /\ stream_pref) => requests[1].stream
    /\ ~stream_pref => \A i \in 1..Len(requests) : ~requests[i].stream

\* The second turn of a seeded session was answered by the fallback: both
\* requests carried the system message, the first turn and the new user text.
C21_Witness ==
    /\ pc = "turn_done"
    /\ turns = 2
    /\ Len(requests) = 2
    /\ Len(turnH) = 3
    /\ turnH[1].role = "system"
    /\ requests[2].messages = Append(turnH, Msg("user", <<"h", "i">>))

----------------------------------------------------------------------------
\* The non-streaming request was made and did not return a completion.
NonStreamFailure ==
    /\ pc = "nonstream_create"
    /\ nonStreamReqs' = nonStreamReqs + 1
    /\ pc' /= "turn_done"

\* The error leaves the executor, which appends, prints and returns nothing.
FailurePropagates ==
    NonStreamFailure =>
        /\ uncaught' = "Exception"
        /\ messages' = messages
        /\ printed' = printed
        /\ ret' = None
        /\ lastPath' = lastPath

(* C22: An error in the non-streaming request, direct or fallback, is not  *)
(* caught by the turn executor: it propagates to the caller, no assistant  *)
(* message is appended and nothing is emitted for that request, and the    *)
(* history is left as the old one plus the turn's user message - the       *)
(* append is not rolled back - so it ends in a user message.               *)
C22_NonStreamErrorPropagates ==
    /\ [][FailurePropagates]_vars
    /\ [](uncaught = "Exception" =>
            /\ messages = TurnContext
            /\ EndsWithUser(messages)
            /\ ret = None
            /\ nonStreamReqs = 1)

\* The direct request of the second turn of an interactive session failed.
C22_Witness ==
    /\ Interactive
    /\ uncaught = "Exception"
    /\ streamReqs = 0
    /\ turns = 2
    /\ Paired(turnH)
    /\ Len(turnH) >= 2
    /\ messages = TurnContext

----------------------------------------------------------------------------
\* A transport call of the turn is pending or its stream is being read.
InCall == pc \in {"stream_create", "stream_iter", "nonstream_create"}

(* C23: Whenever an interactive session awaits input, the history is an    *)
(* optional system message followed by complete (user, assistant) pairs.   *)
(* A history that ends in a user message without its reply exists only     *)
(* while a turn is executing, or after the session has ended on a failed   *)
(* or interrupted turn.                                                    *)
C23_PairsAtPrompt ==
    /\ pc = "AWAITING_INPUT" =>
          /\ Interactive
          /\ Paired(messages)
          /\ Lead(messages) = (IF Truthy(system_prompt) THEN 1 ELSE 0)
    /\ EndsWithUser(messages) =>
          \/ InCall
          \/ pc = "TERMINATED" /\ (uncaught = "Exception" \/ interrupted)

\* The second turn of a session was interrupted: the session is over and the
\* history is one pair followed by the unanswered user message.
C23_Witness ==
    /\ Interactive
    /\ pc = "TERMINATED"
    /\ interrupted
    /\ turns = 2
    /\ Len(messages) = 3
    /\ Paired(SubSeq(messages, 1, 2))
    /\ EndsWithUser(messages)

----------------------------------------------------------------------------
\* The executor is entered.
TurnBegins == turns' = turns + 1

\* Each turn starts from the session's preference, whatever came before.
BeginsWithPreference ==
    TurnBegins =>
        /\ stream' = stream_pref
        /\ pc' = (IF stream_pref THEN "stream_create" ELSE "nonstream_create")
        /\ requests' = <<>>

PreferenceKept == stream_pref' = stream_pref

(* C24: The streaming preference is a constant of the session and the      *)
(* fallback lasts one turn.  The preference never changes; every turn is   *)
(* entered with it, so after a turn that fell back to the non-streaming    *)
(* request the next turn of a session that prefers streaming makes a       *)
(* streaming request first; the first request of every turn is a streaming *)
(* one exactly when the session prefers streaming.                         *)
C24_FallbackPerTurn ==
    /\ [][PreferenceKept]_vars
    /\ [][BeginsWithPreference]_vars
    /\ [](requests /= <<>> => (requests[1].stream <=> stream_pref))
    /\ [](lastPath = "fallback" => stream_pref)

\* The turn before fell back; this one is reading a stream again.
C24_Witness ==
    /\ lastPath = "fallback"
    /\ turns = 2
    /\ pc = "stream_iter"
    /\ stream
    /\ requests = << Request(model, TurnContext, TRUE) >>

----------------------------------------------------------------------------
\* An interrupt is raised while the stream is iterated.
InterruptWhileStreaming == pc = "stream_iter" /\ ~interrupted /\ interrupted'

\* It ends the turn and the session; it is no streaming error.
InterruptEndsTurn ==
    InterruptWhileStreaming =>
        /\ pc' = "TERMINATED"
        /\ stream' = stream
        /\ requests' = requests
        /\ nonStreamReqs' = 0
        /\ messages' = messages
        /\ EndsWithUser(messages')
        /\ ret' = None
        /\ Interactive => (notice' = "Interrupted." /\ uncaught' = "none")

(* C25: An interrupt that arrives while stream fragments are consumed is   *)
(* not treated as a streaming error: neither the per-fragment skip nor the *)
(* fallback handler swallows it, so the stream flag is not cleared, no     *)
(* non-streaming request is made, no assistant message is appended for the *)
(* turn, and the interactive session goes to TERMINATED.  No state follows *)
(* an interrupt in which the process still runs.                           *)
C25_InterruptWhileStreaming ==
    /\ [][InterruptEndsTurn]_vars
    /\ [](interrupted => pc = "TERMINATED")

\* An interactive turn was interrupted after a fragment had been printed.
C25_Witness ==
    /\ Interactive
    /\ interrupted
    /\ pc = "TERMINATED"
    /\ stream
    /\ streamReqs = 1
    /\ nonStreamReqs = 0
    /\ printed = << <<"a">> >>
    /\ EndsWithUser(messages)

----------------------------------------------------------------------------
(* C26: Output on fallback is not retracted.  When streaming fails after   *)
(* k >= 0 non-empty fragments were emitted, the output holds those k       *)
(* fragments while the fallback request is pending and, when it returned,  *)
(* the k fragments in order followed by the full non-streaming text once;  *)
(* the assistant message of the history is the non-streaming text alone.   *)
C26_OutputNotRetracted ==
    /\ (pc = "nonstream_create" /\ streamReqs = 1) => printed = collected
    /\ ReturnedFallback =>
          /\ printed = Append(collected, ResponseText(completion))
          /\ Last(messages) = Msg("assistant", ResponseText(completion))
          /\ Cardinality(NewWithRole(messages, Len(turnH), "assistant")) = 1

\* "a" and "b" were streamed, the stream failed, the fallback answered "ab":
\* the output shows "a", "b", "ab" and the history records "ab".
C26_Witness ==
    /\ ReturnedFallback
    /\ printed = << <<"a">>, <<"b">>, <<"a", "b">> >>
    /\ Last(messages) = Msg("assistant", <<"a", "b">>)

----------------------------------------------------------------------------
(* C27: Emission matches accumulation.  While a stream is consumed and     *)
(* when the streamed turn has returned, the fragments emitted are exactly  *)
(* the accumulated ones - the non-empty texts of the events so far, each   *)
(* once, in arrival order, none held back - so the text shown is the       *)
(* content of the assistant message; on the direct non-streaming path the  *)
(* full text is emitted exactly once.                                      *)
C27_EmissionMatches ==
    /\ (pc = "stream_iter" \/ ReturnedStreamed) =>
          /\ printed = collected
          /\ printed = Fragments(events)
    /\ ReturnedStreamed =>
          /\ join(printed) = ret
          /\ Last(messages) = Msg("assistant", join(printed))
    /\ ReturnedDirect =>
          /\ printed = << ResponseText(completion) >>
          /\ Last(messages) = Msg("assistant", ResponseText(completion))

\* The stream "b", "a" was shown as "b", "a" and recorded as "ba".
C27_Witness ==
    /\ ReturnedStreamed
    /\ printed = << <<"b">>, <<"a">> >>
    /\ Last(messages) = Msg("assistant", <<"b", "a">>)

----------------------------------------------------------------------------
\* a is an initial part of b.
IsPrefix(a, b) == Len(a) <= Len(b) /\ SubSeq(b, 1, Len(a)) = a

\* The executor only appends.
OnlyAppends ==
    /\ Executing => IsPrefix(messages, messages')
    /\ TurnBegins =>
          /\ IsPrefix(messages, messages')
          /\ messages' = Append(turnH', Msg("user", user'))
          /\ pc /= "STARTING" => turnH' = messages

(* C28: History is append-only within a turn.  No step of the executor     *)
(* removes, reorders or edits a message: the history after each step       *)
(* begins with the history before it; every message present before the     *)
(* turn is at the same index with the same role and content during and     *)
(* after it, whatever its outcome; and a turn that returned has made the   *)
(* history longer by exactly 2.                                            *)
C28_AppendOnly ==
    /\ [][OnlyAppends]_vars
    /\ [](IsPrefix(turnH, messages))
    /\ [](Executing => Len(messages) - Len(turnH) \in {1, 2})
    /\ [](pc = "turn_done" => Len(messages) = Len(turnH) + 2)

\* The second turn of a seeded session returned: system message and first
\* turn are where they were, and two messages were added.
C28_Witness ==
    /\ pc = "turn_done"
    /\ turns = 2
    /\ Len(turnH) = 3
    /\ turnH[1] = Msg("system", <<"S">>)
    /\ Len(messages) = 5
    /\ SubSeq(messages, 1, 3) = turnH

----------------------------------------------------------------------------
(* C29: Empty replies still complete the turn.  When the non-streaming     *)
(* response has no content (None or ""), or when a stream ended without    *)
(* error having delivered no non-empty fragment, the turn returns "" and   *)
(* an assistant message with empty content is appended; the empty stream   *)
(* is answered on the streaming path, with no non-streaming request.       *)
C29_EmptyReply ==
    /\ (pc = "turn_done" /\ nonStreamReqs = 1 /\ completion \in {None, <<>>}) =>
          /\ ret = <<>>
          /\ messages = TurnHistory(<<>>)
    /\ (pc = "turn_done" /\ nonStreamReqs = 0) =>
          /\ stream
          /\ collected = <<>> => (ret = <<>> /\ messages = TurnHistory(<<>>))

\* A stream of one event with content "" ended: the turn returned "".
C29_Witness ==
    /\ pc = "turn_done"
    /\ nonStreamReqs = 0
    /\ events = << Event("ok", <<>>) >>
    /\ ret = <<>>
    /\ Last(messages) = Msg("assistant", <<>>)

====
